---- MODULE Spec2Model ----
(***************************************************************************)
(* GauditOCR: the invoice normalizer (src/normalize.py, src/schemas.py).   *)
(*                                                                         *)
(* Numbers.  Every Python float is a fixed-point integer in thousandths    *)
(* (Scale = 1000): 9.5 is 9500, 21.90 is 21900, a quantity of 2 is 2000.   *)
(* round(x, 2) rounds such an integer to a multiple of 10, exact halves    *)
(* going away from zero.                                                   *)
(*                                                                         *)
(* Optional values.  Python's None is the empty tuple and a present value  *)
(* v is the one-element tuple <<v>>, so that an absent and a present       *)
(* value can be compared.                                                  *)
(***************************************************************************)
EXTENDS Integers, Sequences, FiniteSets, TLC

VARIABLES
  result,     \* norm_from_azure: the external analysis result (the argument)
  f,          \* norm_from_azure: the FacturaNormalizada being built
  pc,         \* norm_from_azure: the position in the function body
  ran,        \* norm_from_azure: the line reconstruction tiers called so far,
              \* each with the number of lines it returned
  linea,      \* _calc_missing_line_taxes: the Linea it mutates
  lineaPrev,  \* the Linea as it was before the last call
  lineCalls,  \* number of calls of _calc_missing_line_taxes made on linea
  rateOut,    \* normalize_igi_rate: the value returned by the last call
  rateArg,    \* the argument of the last call
  rateCalls,  \* number of calls of normalize_igi_rate made
  tablesArg,  \* _lines_from_tables: the table grids of the result it is given
  tablesOut,  \* the lines returned by the last call
  tablesCalls, \* number of calls of _lines_from_tables made
  files,      \* main: the input files, in the order the loop takes them
  idx,        \* main: the position of the loop in files
  mainPc,     \* main: the position in the body of the loop
  processed,  \* main: the record process_one returned for the current file
  saved,      \* the JSON files written so far: input path and payload
  registros,  \* main: the summary rows
  log,        \* the OK / FAIL lines printed so far, with their file
  csv,        \* the rows of resumen_sage.csv written by this run
  moneyArg,   \* _parse_money: the text it is given
  moneyOut,   \* the value returned by the last call
  moneyCalls, \* number of calls of _parse_money made
  totalsText, \* _fill_totals_from_text: the text lines it is given
  totalsFac,  \* the record it is given
  totalsOut,  \* the record after the last call
  totalsCalls, \* number of calls of _fill_totals_from_text made
  textArg,    \* _lines_from_text: the text lines it is given
  textOut,    \* the lines returned by the last call
  textCalls   \* number of calls of _lines_from_text made

vars == << result, f, pc, ran, linea, lineaPrev, lineCalls, rateOut, rateArg, rateCalls,
          tablesArg, tablesOut, tablesCalls,
          files, idx, mainPc, processed, saved, registros, log, csv,
          moneyArg, moneyOut, moneyCalls,
          totalsText, totalsFac, totalsOut, totalsCalls, textArg, textOut, textCalls >>
normVars == << result, f, pc, ran >>
lineVars == << linea, lineaPrev, lineCalls >>
rateVars == << rateOut, rateArg, rateCalls >>
tableVars == << tablesArg, tablesOut, tablesCalls >>
mainVars == << files, idx, mainPc, processed, saved, registros, log, csv >>
moneyVars == << moneyArg, moneyOut, moneyCalls >>
totalsVars == << totalsText, totalsFac, totalsOut, totalsCalls >>
textVars == << textArg, textOut, textCalls >>

None == << >>
Some(v) == << v >>
Val(o) == o[1]

Scale == 10 * 100

Abs(x) == IF x < 0 THEN -x ELSE x

\* n/d rounded to the nearest integer, halves away from zero (d # 0)
RoundDiv(n, d) ==
  LET a == Abs(n)
      b == Abs(d)
      q == (2 * a + b) \div (2 * b)
  IN IF (n < 0) = (d < 0) THEN q ELSE -q

\* round(n/d, 2) where n/d is a value in thousandths
Round2Frac(n, d) == RoundDiv(n, 10 * d) * 10

\* round(x, 2)
Round2(x) == Round2Frac(x, 1)

\* round(a * b, 2)
RoundMul(a, b) == Round2Frac(a * b, Scale)

\* round(total / (1 + r/100.0), 2) for a rate r of IGI_RATES, all of them
\* multiples of 0.5: total * 200 / (200 + 2r)
RoundNet(total, r) == Round2Frac(total * 200, 200 + r \div 500)

\* round(base * (r/100.0), 2) for a rate r of IGI_RATES: base * 2r / 200
RoundTax(base, r) == Round2Frac(base * (r \div 500), 200)

\* round((igi / base) * 100.0, 2)
RoundRate(igi, base) == RoundDiv(igi * 10 * Scale, base) * 10

(***************************************************************************)
(* schemas.py: the IGI rate table and its helpers                          *)
(***************************************************************************)
IGI_RATES == << 0, 1000, 2500, 4500, 9500 >>

\* max in place of min
MinByDistance_max(x) ==
  LET d(i) == Abs(IGI_RATES[i] - x)
      best == CHOOSE i \in 1..Len(IGI_RATES) :
                \A j \in 1..Len(IGI_RATES) :
                  d(i) > d(j) \/ (d(i) = d(j) /\ i <= j)
  IN IGI_RATES[best]

\* of the elements with the smallest key the last one in place of the first
MinByDistance_last(x) ==
  LET d(i) == Abs(IGI_RATES[i] - x)
      best == CHOOSE i \in 1..Len(IGI_RATES) :
                \A j \in 1..Len(IGI_RATES) :
                  d(i) < d(j) \/ (d(i) = d(j) /\ i >= j)
  IN IGI_RATES[best]

\* min(IGI_RATES, key=...): the first element with the smallest key
MinByDistance(x) ==
  LET d(i) == Abs(IGI_RATES[i] - x)
      best == CHOOSE i \in 1..Len(IGI_RATES) :
                \A j \in 1..Len(IGI_RATES) :
                  d(i) < d(j) \/ (d(i) = d(j) /\ i <= j)
  IN IGI_RATES[best]

normalize_igi_rate(rate) ==
  IF rate = None THEN None
  ELSE Some(MinByDistance(Round2(Val(rate))))

\* str(r).replace('.', '_') for a float with one decimal digit
FloatStr(r) == ToString(r \div Scale) \o "_" \o ToString((r % Scale) \div 100)

igi_code_from_rate(rate) ==
  LET r == normalize_igi_rate(rate)
  IN IF r = None THEN None ELSE Some("IGI_" \o FloatStr(Val(r)))

(***************************************************************************)
(* schemas.py: Linea, and normalize.py: _calc_missing_line_taxes           *)
(***************************************************************************)
Linea(desc, qty, unit, rate, amount) ==
  [ descripcion     |-> desc,
    cantidad        |-> qty,
    precio_unitario |-> unit,
    tipo_igi        |-> rate,
    importe_igi     |-> None,
    total_linea     |-> amount,
    cuenta_sage     |-> None,
    codigo_igi_sage |-> None ]

\* the net taken as gross minus the tax field already on the line
base_linea_stale(l) ==
  IF l.cantidad # None /\ l.precio_unitario # None
  THEN Some(RoundMul(Val(l.cantidad), Val(l.precio_unitario)))
  ELSE IF l.total_linea # None /\ l.tipo_igi # None
  THEN Some(Val(l.total_linea) - (IF l.importe_igi = None THEN 0 ELSE Val(l.importe_igi)))
  ELSE None

\* the value of base_linea after lines 45-50
base_linea(l) ==
  IF l.cantidad # None /\ l.precio_unitario # None
  THEN Some(RoundMul(Val(l.cantidad), Val(l.precio_unitario)))
  ELSE IF l.total_linea # None /\ l.tipo_igi # None
  THEN Some(RoundNet(Val(l.total_linea), Val(normalize_igi_rate(l.tipo_igi))))
  ELSE None

\* the tax taken at the rate as read, not at the snapped rate
calc_missing_line_taxes_raw(l) ==
  LET b == base_linea(l)
      r == IF l.tipo_igi # None THEN normalize_igi_rate(l.tipo_igi) ELSE None
      igi == IF r # None /\ b # None
             THEN Some(RoundTax(Val(b), Val(l.tipo_igi)))
             ELSE l.importe_igi
      tot == IF r # None /\ b # None /\ l.total_linea = None
             THEN Some(Round2(Val(b) + Val(igi)))
             ELSE l.total_linea
  IN [ l EXCEPT !.importe_igi = igi,
                !.total_linea = tot,
                !.codigo_igi_sage = igi_code_from_rate(r) ]

\* the line total always set to base + tax, a total already on the line included
calc_missing_line_taxes_overwrite(l) ==
  LET b == base_linea(l)
      r == IF l.tipo_igi # None THEN normalize_igi_rate(l.tipo_igi) ELSE None
      igi == IF r # None /\ b # None
             THEN Some(RoundTax(Val(b), Val(r)))
             ELSE l.importe_igi
      tot == IF r # None /\ b # None
             THEN Some(Round2(Val(b) + Val(igi)))
             ELSE l.total_linea
  IN [ l EXCEPT !.importe_igi = igi,
                !.total_linea = tot,
                !.codigo_igi_sage = igi_code_from_rate(r) ]

\* the snapped rate written back to the line
calc_missing_line_taxes_snap(l) ==
  LET b == base_linea(l)
      r == IF l.tipo_igi # None THEN normalize_igi_rate(l.tipo_igi) ELSE None
      igi == IF r # None /\ b # None
             THEN Some(RoundTax(Val(b), Val(r)))
             ELSE l.importe_igi
      tot == IF r # None /\ b # None /\ l.total_linea = None
             THEN Some(Round2(Val(b) + Val(igi)))
             ELSE l.total_linea
  IN [ l EXCEPT !.tipo_igi = r,
                !.importe_igi = igi,
                !.total_linea = tot,
                !.codigo_igi_sage = igi_code_from_rate(r) ]

calc_missing_line_taxes(l) ==
  LET b == base_linea(l)
      r == IF l.tipo_igi # None THEN normalize_igi_rate(l.tipo_igi) ELSE None
      igi == IF r # None /\ b # None
             THEN Some(RoundTax(Val(b), Val(r)))
             ELSE l.importe_igi
      tot == IF r # None /\ b # None /\ l.total_linea = None
             THEN Some(Round2(Val(b) + Val(igi)))
             ELSE l.total_linea
  IN [ l EXCEPT !.importe_igi = igi,
                !.total_linea = tot,
                !.codigo_igi_sage = igi_code_from_rate(r) ]

(***************************************************************************)
(* normalize.py: the text parsers.  A text is a TLA+ string of a small     *)
(* vocabulary; what float() and the regular expressions make of each       *)
(* string of the vocabulary is tabulated below.                            *)
(***************************************************************************)
\* the strings float() accepts, with their values
FloatOf ==
  [ s \in { "0", "1", "2", "4.5", "8.00", "9.5", "9.50", "10.00", "20.00", "21.90",
            "25.00", "43.80", "100.00", "109.50" } |->
      CASE s = "0" -> 0          [] s = "1" -> 1000       [] s = "2" -> 2000
        [] s = "4.5" -> 4500     [] s = "9.5" -> 9500     [] s = "9.50" -> 9500
        [] s = "8.00" -> 8000
        [] s = "10.00" -> 10000  [] s = "20.00" -> 20000  [] s = "21.90" -> 21900
        [] s = "25.00" -> 25000  [] s = "43.80" -> 43800
        [] s = "100.00" -> 100000 [] s = "109.50" -> 109500 ]

\* str(x).replace(",", ".").replace(" ", "") where it changes the string
Replaced ==
  [ s \in { "4,5", "8,00", "9,5", "9,50", "10,00", "20,00", "100,00", "109,50", "2 x 10,00" } |->
      CASE s = "9,5" -> "9.5"        [] s = "9,50" -> "9.50"
        [] s = "8,00" -> "8.00"      [] s = "4,5" -> "4.5"
        [] s = "10,00" -> "10.00"    [] s = "20,00" -> "20.00"
        [] s = "100,00" -> "100.00"  [] s = "109,50" -> "109.50"
        [] s = "2 x 10,00" -> "2x10.00" ]

to_float(x) ==
  IF x = None THEN None
  ELSE IF Val(x) \in DOMAIN FloatOf THEN Some(FloatOf[Val(x)])
  ELSE LET y == IF Val(x) \in DOMAIN Replaced THEN Replaced[Val(x)] ELSE Val(x)
       IN IF y \in DOMAIN FloatOf THEN Some(FloatOf[y]) ELSE None

\* re.sub(r"\s+", " ", s).strip(), None when nothing is left
clean_name(s) ==
  IF s = None THEN None
  ELSE IF Val(s) = "" THEN None ELSE s

\* group 1 of r"([-+]?\d{1,2}(?:[\,\.]\d+)?)\s*%" where it matches
PctGroup == [ s \in { "9,5%", "4,5%" } |-> IF s = "9,5%" THEN "9,5" ELSE "4,5" ]

pct_from_text(s) ==
  IF s = None \/ s = Some("") THEN None
  ELSE IF Val(s) \in DOMAIN PctGroup THEN to_float(Some(PctGroup[Val(s)]))
  ELSE to_float(s)

\* groups qty and unit of the 'qty x unit' pattern where it matches
QtyUnitGroups == [ s \in { "2 x 10,00" } |-> << "2", "10,00" >> ]

extract_qty_unit(cell) ==
  IF cell = None \/ cell = Some("") THEN << None, None >>
  ELSE IF Val(cell) \in DOMAIN QtyUnitGroups
  THEN << to_float(Some(QtyUnitGroups[Val(cell)][1])),
          to_float(Some(QtyUnitGroups[Val(cell)][2])) >>
  ELSE << to_float(cell), None >>

(***************************************************************************)
(* normalize.py: _lines_from_tables.  A table is its grid: a sequence of   *)
(* rows of cell texts, row 1 being the header row.                         *)
(***************************************************************************)
\* h.lower() for the header cells of the vocabulary
Lower(h) ==
  CASE h = "Cantidad" -> "cantidad" [] h = "Total" -> "total"
    [] h = "Descripcion" -> "descripcion" [] h = "Precio" -> "precio"
    [] h = "IGI" -> "igi" [] h = "Ref" -> "ref" [] h = "Obs" -> "obs"
    [] h = "Nota" -> "nota"
    [] OTHER -> h

ALIAS_DESC == << "concepte", "concepte/description", "descripció", "descripción",
                 "descripcion", "description", "concepto", "concepe" >>
ALIAS_QTY  == << "quantitat", "cantidad", "qty", "cant.", "cant", "unidades",
                 "ud.", "uds", "qtd", "unitats" >>
ALIAS_UNIT == << "preu", "preu unitari", "precio", "precio unitario", "unit price",
                 "p. unit", "pu", "precio/u" >>
ALIAS_TAX  == << "igi", "iva", "i.v.a.", "tax", "impuesto", "% igi", "%",
                 "tipus igi", "tipo iva" >>
ALIAS_AMT  == << "import", "amount", "total línea", "total linea", "total",
                 "importe", "importe (€)", "neto", "base imp.", "base imp", "base" >>

\* header.index(a): the first column holding a
IndexOf(header, a) == CHOOSE k \in 1..Len(header) :
                        header[k] = a /\ \A j \in 1..(k - 1) : header[j] # a

\* find(*alts): the column of the first alias present in the header, 0 for -1
find(header, alts) ==
  LET present == { n \in 1..Len(alts) : \E k \in 1..Len(header) : header[k] = alts[n] }
  IN IF present = {} THEN 0
     ELSE IndexOf(header, alts[CHOOSE n \in present : \A m \in present : n <= m])

\* r[i] if i < len(r) else dflt: the index -1 of an unmapped column reads the
\* last cell of the row
CellAt_unguarded(r, i, dflt) ==
  IF i <= Len(r) THEN Some(r[IF i = 0 THEN Len(r) ELSE i]) ELSE dflt

\* r[i] if i >= 0 and i < len(r) else dflt
CellAt(r, i, dflt) == IF i >= 1 /\ i <= Len(r) THEN Some(r[i]) ELSE dflt

Truthy(txt) == txt # None /\ txt # Some("")

\* the Linea of one data row, or None when the row is skipped (lines 213-238)
LineaOfRow(header, r) ==
  LET desc_txt   == CellAt(r, find(header, ALIAS_DESC), Some(""))
      qty_txt    == CellAt(r, find(header, ALIAS_QTY), None)
      unit_txt   == CellAt(r, find(header, ALIAS_UNIT), None)
      tax_txt    == CellAt(r, find(header, ALIAS_TAX), None)
      amount_txt == CellAt(r, find(header, ALIAS_AMT), None)
      qu         == extract_qty_unit(qty_txt)
      unit       == IF qu[2] = None THEN to_float(unit_txt) ELSE qu[2]
  IN IF ~(Truthy(desc_txt) \/ Truthy(qty_txt) \/ Truthy(unit_txt) \/ Truthy(amount_txt))
     THEN None
     ELSE Some(calc_missing_line_taxes(
            Linea(clean_name(desc_txt), qu[1], unit, pct_from_text(tax_txt),
                  to_float(amount_txt))))

RECURSIVE LinesOfRows(_, _)
LinesOfRows(header, rows) ==
  IF rows = << >> THEN << >>
  ELSE LineaOfRow(header, Head(rows)) \o LinesOfRows(header, Tail(rows))

LinesOfTable(grid) ==
  IF grid = << >> THEN << >>
  ELSE LinesOfRows([k \in 1..Len(grid[1]) |-> Lower(grid[1][k])], Tail(grid))

RECURSIVE lines_from_tables(_)
lines_from_tables(tables) ==
  IF tables = << >> THEN << >>
  ELSE LinesOfTable(Head(tables)) \o lines_from_tables(Tail(tables))

(***************************************************************************)
(* normalize.py: the OCR text.  A text line is the sequence of its         *)
(* blank-separated tokens; the text is the sequence of its lines.          *)
(***************************************************************************)
\* the keyword substrings of the lower-cased token
Substrings(tok) ==
  CASE tok = "Cant"     -> { "cant" }
    [] tok = "Concepto" -> { "concep" }
    [] tok = "Precio"   -> { "precio" }
    [] tok = "Importe"  -> { "importe" }
    [] tok = "Subtotal" -> { "subtotal", "total" }
    [] tok = "Total"    -> { "total" }
    [] tok = "IVA"      -> { "iva" }
    [] OTHER            -> { }

\* the lower-cased word a \b...\b pattern sees in the token
WordOf(tok) ==
  CASE tok = "Subtotal" -> "subtotal"
    [] tok = "Total"    -> "total"
    [] tok = "IVA"      -> "iva"
    [] OTHER            -> ""

\* RE_NUM.findall on the token
NumsIn(tok) ==
  CASE tok \in { "2", "9,50", "10,00", "20,00", "100,00", "109,50" } -> << tok >>
    [] tok = "A1" -> << "1" >>
    [] OTHER -> << >>

HasWord(ln, words) == \E k \in 1..Len(ln) : WordOf(ln[k]) \in words
HasWordPair(ln, w1, w2) ==
  \E k \in 1..(Len(ln) - 1) : WordOf(ln[k]) = w1 /\ WordOf(ln[k + 1]) = w2
HasSubstring(ln, subs) == \E k \in 1..Len(ln) : Substrings(ln[k]) \cap subs # {}

RE_SUBTOTAL(ln)   == HasWord(ln, { "subtotal" })
RE_BASE_IMP(ln)   == HasWordPair(ln, "base", "imponible")
RE_TOTAL(ln)      == HasWord(ln, { "total" })
RE_TOTAL_FACT(ln) == HasWordPair(ln, "total", "factura")
RE_TOTAL_IVA(ln)  == HasWordPair(ln, "total", "iva")
RE_IVA_LINE(ln)   == HasWord(ln, { "iva", "tax", "impuesto" })

\* group 2 of RE_IVA_LINE.  The lazy .*? is followed by an optional group, so
\* the group is tried only right after the keyword, where \b asks for a
\* non-word character while the group starts with a digit: it never takes part.
RE_IVA_LINE_pct(ln) == None

RECURSIVE AllNums(_)
AllNums(ln) == IF ln = << >> THEN << >> ELSE NumsIn(Head(ln)) \o AllNums(Tail(ln))

\* _parse_money: the last number of the line
parse_money(ln) ==
  LET nums == AllNums(ln)
  IN IF nums = << >> THEN None ELSE to_float(Some(nums[Len(nums)]))

\* _text_from_result: the page lines, then one line "key: value" per pair
KvLine(kv) == << kv.key \o ":", kv.value >>
text_from_result(res) ==
  res.lines \o [k \in 1..Len(res.key_value_pairs) |-> KvLine(res.key_value_pairs[k])]

(***************************************************************************)
(* normalize.py: _lines_from_text                                          *)
(***************************************************************************)
IsHeaderWindow(window) ==
  /\ \E k \in 1..Len(window) : HasSubstring(window[k], { "cant", "cantidad" })
  /\ \E k \in 1..Len(window) : HasSubstring(window[k], { "concep", "descrip" })
  /\ \E k \in 1..Len(window) :
       HasSubstring(window[k], { "precio", "importe", "neto", "base imp", "b.i." })

Min(a, b) == IF a <= b THEN a ELSE b

\* lines[i:i+3], with i counted from 1
Window(lines, i) == SubSeq(lines, i, Min(i + 2, Len(lines)))

\* header_idx counted from 1; 0 stands for -1
header_idx(lines) ==
  LET hits == { i \in 1..Len(lines) : IsHeaderWindow(Window(lines, i)) }
  IN IF hits = {} THEN 0
     ELSE LET i == CHOOSE h \in hits : \A g \in hits : h <= g
          IN i + Min(2, Len(lines) - i)

StartsWithStop(ln) ==
  ln # << >> /\ WordOf(ln[1]) \in { "subtotal", "total" }

\* end_idx counted from 1
end_idx(lines, hdr) ==
  LET stops == { j \in (hdr + 1)..Len(lines) : StartsWithStop(lines[j]) }
  IN IF stops = {} THEN Len(lines) + 1
     ELSE CHOOSE j \in stops : \A g \in stops : j <= g

IsNumTok(tok) == to_float(Some(tok)) # None

RECURSIVE Join(_)
Join(toks) ==
  IF Len(toks) = 1 THEN toks[1] ELSE toks[1] \o " " \o Join(Tail(toks))

\* row_re.match(ln): qty, desc, unit and amount; with single blanks between the
\* tokens the optional unit group has to take part for the two \s+ to match
RowMatches(ln) ==
  /\ Len(ln) >= 4
  /\ IsNumTok(ln[1])
  /\ IsNumTok(ln[Len(ln) - 1])
  /\ IsNumTok(ln[Len(ln)])

LineaOfTextRow(ln) ==
  IF ~RowMatches(ln) THEN << >>
  ELSE LET qty    == to_float(Some(ln[1]))
           unit   == to_float(Some(ln[Len(ln) - 1]))
           amount == to_float(Some(ln[Len(ln)]))
           desc   == clean_name(Some(Join(SubSeq(ln, 2, Len(ln) - 2))))
       IN IF desc # None /\ (qty # None \/ unit # None \/ amount # None)
          THEN << calc_missing_line_taxes(Linea(desc, qty, unit, None, amount)) >>
          ELSE << >>

RECURSIVE LinesOfBody(_)
LinesOfBody(body) ==
  IF body = << >> THEN << >>
  ELSE LineaOfTextRow(Head(body)) \o LinesOfBody(Tail(body))

lines_from_text(text) ==
  LET hdr == header_idx(text)
  IN IF text = << >> \/ hdr = 0 THEN << >>
     ELSE LinesOfBody(SubSeq(text, hdr + 1, end_idx(text, hdr) - 1))

(***************************************************************************)
(* normalize.py: _fill_totals_from_text                                    *)
(***************************************************************************)
NoGuess == [ base_guess |-> None, iva_guess |-> None, total_guess |-> None,
             iva_rate_guess |-> None ]

\* the four tests of one turn of the loop over the text lines (lines 328-351),
\* val being _parse_money of the line
GuessBase(g, ln, fac, val) ==
  IF (RE_SUBTOTAL(ln) \/ RE_BASE_IMP(ln)) /\ fac.base_imponible = None /\ val # None
  THEN [ g EXCEPT !.base_guess = val ] ELSE g

GuessTotalIva(g, ln, val) ==
  IF RE_TOTAL_IVA(ln) /\ g.iva_guess = None /\ val # None
  THEN [ g EXCEPT !.iva_guess = val ] ELSE g

GuessIvaLine(g, ln, val) ==
  IF RE_IVA_LINE(ln) /\ g.iva_guess = None
  THEN [ g EXCEPT !.iva_guess = IF val # None THEN val ELSE @,
                  !.iva_rate_guess =
                     IF @ = None /\ RE_IVA_LINE_pct(ln) # None
                     THEN to_float(RE_IVA_LINE_pct(ln)) ELSE @ ]
  ELSE g

GuessTotal(g, ln, val) ==
  IF (RE_TOTAL_FACT(ln) \/ RE_TOTAL(ln)) /\ g.total_guess = None /\ val # None
  THEN [ g EXCEPT !.total_guess = val ] ELSE g

GuessStepVal(g, ln, fac, val) ==
  GuessTotal(GuessIvaLine(GuessTotalIva(GuessBase(g, ln, fac, val), ln, val), ln, val),
             ln, val)

GuessStep(g, ln, fac) == GuessStepVal(g, ln, fac, parse_money(ln))

RECURSIVE Guesses(_, _, _)
Guesses(g, text, fac) ==
  IF text = << >> THEN g
  ELSE Guesses(GuessStep(g, Head(text), fac), Tail(text), fac)

\* lines 353-362: a guess fills only a header field that is still missing
ApplyBase(fac, g) ==
  IF fac.base_imponible = None /\ g.base_guess # None
  THEN [ fac EXCEPT !.base_imponible = g.base_guess ] ELSE fac

ApplyIgi(fac, g) ==
  IF fac.igi = None /\ g.iva_guess # None
  THEN [ fac EXCEPT !.igi = g.iva_guess ] ELSE fac

ApplyTotal(fac, g) ==
  IF fac.total = None /\ g.total_guess # None
  THEN [ fac EXCEPT !.total = g.total_guess ] ELSE fac

ApplySum(fac) ==
  IF fac.total = None /\ fac.base_imponible # None /\ fac.igi # None
  THEN [ fac EXCEPT !.total = Some(Round2(Val(fac.base_imponible) + Val(fac.igi))) ]
  ELSE fac

ApplyCode(fac, g) ==
  IF fac.codigo_igi_sage = None /\ g.iva_rate_guess # None
  THEN [ fac EXCEPT !.codigo_igi_sage =
                      igi_code_from_rate(normalize_igi_rate(g.iva_rate_guess)) ]
  ELSE fac

ApplyGuesses(fac, g) ==
  ApplyCode(ApplySum(ApplyTotal(ApplyIgi(ApplyBase(fac, g), g), g)), g)

fill_totals_from_text(text, fac) == ApplyGuesses(fac, Guesses(NoGuess, text, fac))

(***************************************************************************)
(* The inputs: the analysis results norm_from_azure is applied to          *)
(***************************************************************************)
MaxItems == 2
MaxTextRows == 3

SeqsUpTo(S, n) == UNION { [1..k -> S] : k \in 0..n }

\* the sub-fields of one structured item (absent, or the text of the value)
Item(desc, qty, unit, taxrate, amount) ==
  [ Description |-> desc, Quantity |-> qty, UnitPrice |-> unit,
    TaxRate |-> taxrate, Amount |-> amount ]

ItemValues ==
  { Item(None, Some("abc"), None, None, None),
    Item(None, None, None, Some("9.5"), Some("21.90")),
    Item(None, None, None, Some("9.5"), Some("43.80")),
    Item(Some("Widget"), Some("2"), Some("10.00"), Some("4.5"), Some("25.00")) }

\* documents[0].fields, an absent key being None
DocValues ==
  [ InvoiceId    : { None },
    SubTotal     : { None, Some("0"), Some("100.00") },
    TotalTax     : { None, Some("9.50") },
    InvoiceTotal : { None, Some("109.50") },
    Items        : { None } \cup { Some(its) : its \in SeqsUpTo(ItemValues, MaxItems) } ]

\* the table grids of the pages: no table, or one table
TableLists ==
  { << >>,
    << << << "Cantidad", "Total" >>, << "", "" >>, << "2", "20,00" >> >> >>,
    << << << "Cantidad", "Total" >>, << "abc", "" >> >> >>,
    << << << "Cantidad", "Precio", "IGI", "Total" >>, << "2", "10,00", "9,5%", "" >> >> >> }

HeaderLine   == << "Cant", "Concepto", "Precio", "Importe" >>
RowLine      == << "2", "Widget", "10,00", "20,00" >>
SubtotalLine == << "Subtotal", "100,00" >>
IvaLine      == << "IVA", "9,50" >>
TotalLine    == << "Total", "109,50" >>

\* the text lines of the pages: an optional block of a header line and data
\* rows (one row too few for the body to yield a line, or just enough), then
\* any of the subtotal, tax and total lines
TextBlocks ==
  { << >> } \cup { << HeaderLine >> \o [i \in 1..k |-> RowLine] :
                     k \in (MaxTextRows - 1)..MaxTextRows }
TextTotals ==
  { (IF b[1] THEN << SubtotalLine >> ELSE << >>)
      \o (IF b[2] THEN << IvaLine >> ELSE << >>)
      \o (IF b[3] THEN << TotalLine >> ELSE << >>) : b \in [1..3 -> BOOLEAN] }
TextValues == { b \o t : b \in TextBlocks, t \in TextTotals }

KvLists == { << >>, << [ key |-> "Ref", value |-> "A1" ] >> }

Results ==
  [ documents       : SeqsUpTo(DocValues, 1),
    lines           : TextValues,
    tables          : TableLists,
    key_value_pairs : KvLists ]

(***************************************************************************)
(* schemas.py: FacturaNormalizada()                                        *)
(***************************************************************************)
FacturaNormalizada ==
  [ num_factura        |-> None,
    base_imponible     |-> None,
    igi                |-> None,
    total              |-> None,
    lineas             |-> << >>,
    clasificacion_sage |-> None,
    codigo_igi_sage    |-> None,
    azure_fields       |-> { },
    azure_items        |-> << >>,
    azure_kv_pairs     |-> << >>,
    azure_tables       |-> << >> ]

(***************************************************************************)
(* normalize.py: norm_from_azure, one action per block of its body         *)
(***************************************************************************)
doc == IF result.documents = << >> THEN None ELSE Some(result.documents[1])

\* lines 370-400: the header figures from the structured fields
HeaderFromFields ==
  /\ pc = "start"
  /\ doc # None
  /\ LET d  == Val(doc)
         f1 == [ FacturaNormalizada EXCEPT
                   !.num_factura    = clean_name(d.InvoiceId),
                   !.base_imponible = to_float(d.SubTotal),
                   !.igi            = to_float(d.TotalTax),
                   !.total          = to_float(d.InvoiceTotal) ]
     IN f' = IF f1.total = None /\ f1.base_imponible # None /\ f1.igi # None
             THEN [ f1 EXCEPT !.total =
                      Some(Round2(Val(f1.base_imponible) + Val(f1.igi))) ]
             ELSE f1
  /\ pc' = "items"
  /\ UNCHANGED << result, ran, lineVars, rateVars, tableVars, mainVars, moneyVars, totalsVars, textVars >>

\* lines 420-433: the Linea of one structured item
LineaOfItem(it) ==
  calc_missing_line_taxes(
    Linea(clean_name(it.Description), to_float(it.Quantity), to_float(it.UnitPrice),
          to_float(it.TaxRate), to_float(it.Amount)))

\* lines 403-434: the lines of the Items field, none when it is no list
lines_from_items(d) ==
  IF d.Items = None THEN << >>
  ELSE [k \in 1..Len(Val(d.Items)) |-> LineaOfItem(Val(d.Items)[k])]

Ran(tier, ls) == [ tier |-> tier, n |-> Len(ls) ]

\* lines 402-434: Tier 1, the lines of the structured Items
LinesFromItems ==
  /\ pc = "items"
  /\ f' = [ f EXCEPT !.lineas = lines_from_items(Val(doc)) ]
  /\ ran' = Append(ran, Ran("items", lines_from_items(Val(doc))))
  /\ pc' = "tables"
  /\ UNCHANGED << result, lineVars, rateVars, tableVars, mainVars, moneyVars, totalsVars, textVars >>

\* the tables are read whatever the Items gave
LinesFromTables_always ==
  /\ pc = "tables"
  /\ f' = [ f EXCEPT !.lineas = lines_from_tables(result.tables) ]
  /\ ran' = Append(ran, Ran("tables", lines_from_tables(result.tables)))
  /\ pc' = "text"
  /\ UNCHANGED << result, lineVars, rateVars, tableVars, mainVars, moneyVars, totalsVars, textVars >>

\* lines 436-438: Tier 2, the lines of the OCR tables
LinesFromTables ==
  /\ pc = "tables"
  /\ IF f.lineas = << >>
     THEN /\ f' = [ f EXCEPT !.lineas = lines_from_tables(result.tables) ]
          /\ ran' = Append(ran, Ran("tables", lines_from_tables(result.tables)))
     ELSE UNCHANGED << f, ran >>
  /\ pc' = "text"
  /\ UNCHANGED << result, lineVars, rateVars, tableVars, mainVars, moneyVars, totalsVars, textVars >>

\* lines 440-443: Tier 3, the lines of the OCR text
LinesFromText ==
  /\ pc = "text"
  /\ IF f.lineas = << >>
     THEN /\ f' = [ f EXCEPT !.lineas = lines_from_text(text_from_result(result)) ]
          /\ ran' = Append(ran, Ran("text", lines_from_text(text_from_result(result))))
     ELSE UNCHANGED << f, ran >>
  /\ pc' = "totals"
  /\ UNCHANGED << result, lineVars, rateVars, tableVars, mainVars, moneyVars, totalsVars, textVars >>

\* lines 445-447: the totals of the text when a header figure is missing
FillTotals ==
  /\ pc = "totals"
  /\ f' = IF f.base_imponible = None \/ f.igi = None \/ f.total = None
          THEN fill_totals_from_text(text_from_result(result), f)
          ELSE f
  /\ pc' = "synthetic"
  /\ UNCHANGED << result, ran, lineVars, rateVars, tableVars, mainVars, moneyVars, totalsVars, textVars >>

\* the rate estimated from total - base when the header tax is missing
SyntheticLinea_derived(fac) ==
  LET tax == IF fac.igi # None THEN fac.igi
             ELSE Some(Val(fac.total) - Val(fac.base_imponible))
      r == IF fac.base_imponible # None /\ Val(fac.base_imponible) # 0
           THEN Some(RoundRate(Val(tax), Val(fac.base_imponible)))
           ELSE None
      desc == IF fac.num_factura = None THEN "Factura"
              ELSE "Factura " \o Val(fac.num_factura)
  IN calc_missing_line_taxes(
       Linea(clean_name(Some(desc)), Some(1 * Scale), fac.base_imponible, r, fac.total))

\* the rate taken as 0 when the header base is 0, the test of the base left out
SyntheticLinea_zero_rate(fac) ==
  LET r == IF fac.base_imponible # None /\ fac.igi # None
           THEN IF Val(fac.base_imponible) = 0 THEN Some(0)
                ELSE Some(RoundRate(Val(fac.igi), Val(fac.base_imponible)))
           ELSE None
      desc == IF fac.num_factura = None THEN "Factura"
              ELSE "Factura " \o Val(fac.num_factura)
  IN calc_missing_line_taxes(
       Linea(clean_name(Some(desc)), Some(1 * Scale), fac.base_imponible, r, fac.total))

\* lines 451-465 and 544-558: the line made of the header totals
SyntheticLinea(fac) ==
  LET r == IF fac.base_imponible # None /\ Val(fac.base_imponible) # 0 /\ fac.igi # None
           THEN Some(RoundRate(Val(fac.igi), Val(fac.base_imponible)))
           ELSE None
      desc == IF fac.num_factura = None THEN "Factura"
              ELSE "Factura " \o Val(fac.num_factura)
  IN calc_missing_line_taxes(
       Linea(clean_name(Some(desc)), Some(1 * Scale), fac.base_imponible, r, fac.total))

\* lines 449-465
Synthetic ==
  /\ pc = "synthetic"
  /\ f' = IF f.lineas = << >> /\ f.base_imponible # None /\ f.total # None
          THEN [ f EXCEPT !.lineas = << SyntheticLinea(f) >> ]
          ELSE f
  /\ pc' = "bottom_up"
  /\ UNCHANGED << result, ran, lineVars, rateVars, tableVars, mainVars, moneyVars, totalsVars, textVars >>

\* the tax field of the line added in place of the tax of the inverted base
EstimateOf_fields(l) ==
  IF l.total_linea # None /\ l.tipo_igi # None
  THEN LET r    == Val(normalize_igi_rate(l.tipo_igi))
           base == RoundNet(Val(l.total_linea), r)
       IN << base, IF l.importe_igi = None THEN 0 ELSE Val(l.importe_igi) >>
  ELSE << 0, 0 >>

\* lines 472-476: what one line adds to base_estimada and to igi_estimada
EstimateOf(l) ==
  IF l.total_linea # None /\ l.tipo_igi # None
  THEN LET r    == Val(normalize_igi_rate(l.tipo_igi))
           base == RoundNet(Val(l.total_linea), r)
       IN << base, RoundTax(base, r) >>
  ELSE << 0, 0 >>

RECURSIVE Estimate(_)
Estimate(ls) ==
  IF ls = << >> THEN << 0, 0 >>
  ELSE LET e == EstimateOf(Head(ls))
           t == Estimate(Tail(ls))
       IN << e[1] + t[1], e[2] + t[2] >>

\* the header total left alone
BottomUp_keep_total ==
  /\ pc = "bottom_up"
  /\ LET e == Estimate(f.lineas)
     IN f' = IF f.base_imponible = None /\ f.lineas # << >> /\ e[1] > 0
             THEN [ f EXCEPT !.base_imponible = Some(Round2(e[1])),
                             !.igi   = Some(Round2(e[2])) ]
             ELSE f
  /\ pc' = "tax_code"
  /\ UNCHANGED << result, ran, lineVars, rateVars, tableVars, mainVars, moneyVars, totalsVars, textVars >>

\* lines 467-481: the header figures from the lines
BottomUp ==
  /\ pc = "bottom_up"
  /\ LET e == Estimate(f.lineas)
     IN f' = IF f.base_imponible = None /\ f.lineas # << >> /\ e[1] > 0
             THEN [ f EXCEPT !.base_imponible = Some(Round2(e[1])),
                             !.igi   = Some(Round2(e[2])),
                             !.total = IF @ = None
                                       THEN Some(Round2(Round2(e[1]) + Round2(e[2])))
                                       ELSE @ ]
             ELSE f
  /\ pc' = "tax_code"
  /\ UNCHANGED << result, ran, lineVars, rateVars, tableVars, mainVars, moneyVars, totalsVars, textVars >>

\* line 483: the snapped rates of the lines that have a rate
tipos(ls) == { normalize_igi_rate(ls[k].tipo_igi) :
                 k \in { j \in 1..Len(ls) : ls[j].tipo_igi # None } }

\* the code of the first rate found, however many rates there are
TaxCode_first ==
  /\ pc = "tax_code"
  /\ f' = [ f EXCEPT
              !.codigo_igi_sage =
                 IF Cardinality(tipos(f.lineas)) >= 1
                 THEN igi_code_from_rate(CHOOSE r \in tipos(f.lineas) : TRUE)
                 ELSE @,
              !.clasificacion_sage = IF @ = None THEN Some("Por revisar") ELSE @ ]
  /\ pc' = "done"
  /\ UNCHANGED << result, ran, lineVars, rateVars, tableVars, mainVars, moneyVars, totalsVars, textVars >>

\* lines 483-487
TaxCode ==
  /\ pc = "tax_code"
  /\ f' = [ f EXCEPT
              !.codigo_igi_sage =
                 IF Cardinality(tipos(f.lineas)) = 1
                 THEN igi_code_from_rate(CHOOSE r \in tipos(f.lineas) : TRUE)
                 ELSE @,
              !.clasificacion_sage = IF @ = None THEN Some("Por revisar") ELSE @ ]
  /\ pc' = "done"
  /\ UNCHANGED << result, ran, lineVars, rateVars, tableVars, mainVars, moneyVars, totalsVars, textVars >>

\* lines 489-535: no document, the totals come from the text
OcrHeader ==
  /\ pc = "start"
  /\ doc = None
  /\ f' = fill_totals_from_text(text_from_result(result), FacturaNormalizada)
  /\ pc' = "ocr_lines"
  /\ UNCHANGED << result, ran, lineVars, rateVars, tableVars, mainVars, moneyVars, totalsVars, textVars >>

\* lines 537-540
OcrLines ==
  /\ pc = "ocr_lines"
  /\ LET fromTables == lines_from_tables(result.tables)
         fromText   == lines_from_text(text_from_result(result))
     IN IF fromTables # << >>
        THEN /\ f' = [ f EXCEPT !.lineas = fromTables ]
             /\ ran' = Append(ran, Ran("tables", fromTables))
        ELSE /\ f' = [ f EXCEPT !.lineas = fromText ]
             /\ ran' = ran \o << Ran("tables", fromTables), Ran("text", fromText) >>
  /\ pc' = "ocr_synthetic"
  /\ UNCHANGED << result, lineVars, rateVars, tableVars, mainVars, moneyVars, totalsVars, textVars >>

\* lines 542-561
OcrSynthetic ==
  /\ pc = "ocr_synthetic"
  /\ f' = [ f EXCEPT
              !.lineas = IF f.lineas = << >> /\ f.base_imponible # None /\ f.total # None
                         THEN << SyntheticLinea(f) >> ELSE @,
              !.clasificacion_sage = Some("Por revisar") ]
  /\ pc' = "done"
  /\ UNCHANGED << result, ran, lineVars, rateVars, tableVars, mainVars, moneyVars, totalsVars, textVars >>

IdleLine == [ cantidad |-> None ]

Init ==
  /\ result \in Results
  /\ f = FacturaNormalizada
  /\ pc = "start"
  /\ ran = << >>
  /\ linea = IdleLine /\ lineaPrev = IdleLine /\ lineCalls = 0
  /\ rateOut = None /\ rateArg = None /\ rateCalls = 0
  /\ tablesArg = << >> /\ tablesOut = << >> /\ tablesCalls = 0
  /\ files = << >> /\ idx = 1 /\ mainPc = "idle" /\ processed = << >>
  /\ saved = << >> /\ registros = << >> /\ log = << >> /\ csv = << >>
  /\ moneyArg = << >> /\ moneyOut = << >> /\ moneyCalls = 0
  /\ totalsText = << >> /\ totalsFac = << >> /\ totalsOut = << >> /\ totalsCalls = 0
  /\ textArg = << >> /\ textOut = << >> /\ textCalls = 0

Next ==
  \/ HeaderFromFields
  \/ LinesFromItems
  \/ LinesFromTables
  \/ LinesFromText
  \/ FillTotals
  \/ Synthetic
  \/ BottomUp
  \/ TaxCode
  \/ OcrHeader
  \/ OcrLines
  \/ OcrSynthetic

Spec == Init /\ [][Next]_vars

(***************************************************************************)
(* _calc_missing_line_taxes on its own: applied again and again to a Linea *)
(* as the three tiers construct it                                         *)
(***************************************************************************)
MaxCalls == 2

LineInputs ==
  { Linea(d, q, u, r, a) :
      d \in { None, Some("Widget") },
      q \in { None, Some(2000), Some(-1000) },
      u \in { None, Some(10000), Some(330) },
      r \in { None, Some(0), Some(4500), Some(9500), Some(1750), Some(21000) },
      a \in { None, Some(21900), Some(60) } }

CalcLine ==
  /\ lineCalls < MaxCalls
  /\ lineaPrev' = linea
  /\ linea' = calc_missing_line_taxes(linea)
  /\ lineCalls' = lineCalls + 1
  /\ UNCHANGED << normVars, rateVars, tableVars, mainVars, moneyVars, totalsVars, textVars >>

InitLine ==
  /\ linea \in LineInputs
  /\ lineaPrev = linea
  /\ lineCalls = 0
  /\ result = [ documents |-> << >>, lines |-> << >>, tables |-> << >>,
                key_value_pairs |-> << >> ]
  /\ f = FacturaNormalizada
  /\ pc = "idle"
  /\ ran = << >>
  /\ rateOut = None /\ rateArg = None /\ rateCalls = 0
  /\ tablesArg = << >> /\ tablesOut = << >> /\ tablesCalls = 0
  /\ files = << >> /\ idx = 1 /\ mainPc = "idle" /\ processed = << >>
  /\ saved = << >> /\ registros = << >> /\ log = << >> /\ csv = << >>
  /\ moneyArg = << >> /\ moneyOut = << >> /\ moneyCalls = 0
  /\ totalsText = << >> /\ totalsFac = << >> /\ totalsOut = << >> /\ totalsCalls = 0
  /\ textArg = << >> /\ textOut = << >> /\ textCalls = 0

SpecLine == InitLine /\ [][CalcLine]_vars

(***************************************************************************)
(* _lines_from_tables on its own: applied to the tables of a result, one   *)
(* table of three columns with a header row and data rows                  *)
(***************************************************************************)
MaxTableRows == 2

\* a header no cell of which is an alias; quantity, unit price and amount
\* columns; quantity and amount columns with an unmapped column between them
TableHeaders ==
  { << "Ref", "Obs", "Nota" >>,
    << "Cantidad", "Precio", "Total" >>,
    << "Cantidad", "Obs", "Total" >> }

TableRows ==
  { << q, p, t >> : q \in { "", "2", "2 x 10,00", "abc" },
                    p \in { "", "8,00", "abc" },
                    t \in { "", "20,00" } }

TableInputs ==
  { << << h >> \o rows >> : h \in TableHeaders, rows \in SeqsUpTo(TableRows, MaxTableRows) }

LinesFromTablesCall ==
  /\ tablesCalls = 0
  /\ tablesOut' = lines_from_tables(tablesArg)
  /\ tablesCalls' = 1
  /\ UNCHANGED << tablesArg, normVars, lineVars, rateVars, mainVars, moneyVars, totalsVars, textVars >>

InitTables ==
  /\ tablesArg \in TableInputs
  /\ tablesOut = << >>
  /\ tablesCalls = 0
  /\ result = [ documents |-> << >>, lines |-> << >>, tables |-> << >>,
                key_value_pairs |-> << >> ]
  /\ f = FacturaNormalizada
  /\ pc = "idle"
  /\ ran = << >>
  /\ linea = IdleLine /\ lineaPrev = IdleLine /\ lineCalls = 0
  /\ rateOut = None /\ rateArg = None /\ rateCalls = 0
  /\ files = << >> /\ idx = 1 /\ mainPc = "idle" /\ processed = << >>
  /\ saved = << >> /\ registros = << >> /\ log = << >> /\ csv = << >>
  /\ moneyArg = << >> /\ moneyOut = << >> /\ moneyCalls = 0
  /\ totalsText = << >> /\ totalsFac = << >> /\ totalsOut = << >> /\ totalsCalls = 0
  /\ textArg = << >> /\ textOut = << >> /\ textCalls = 0

SpecTables == InitTables /\ [][LinesFromTablesCall]_vars

(***************************************************************************)
(* main.py: the batch run main(), one action per call of the loop body,    *)
(* each call either returning or raising                                   *)
(***************************************************************************)
MaxFiles == 3

\* the lists glob can give: distinct paths, in any order
FileLists ==
  { s \in SeqsUpTo(1..MaxFiles, MaxFiles) :
      \A i, j \in 1..Len(s) : i # j => s[i] # s[j] }

\* records process_one can return
ProcessedRecords ==
  { [ FacturaNormalizada EXCEPT !.clasificacion_sage = Some("Por revisar") ],
    [ FacturaNormalizada EXCEPT !.num_factura = Some("F-123"),
                                !.base_imponible = Some(100000),
                                !.igi = Some(9500),
                                !.total = Some(109500),
                                !.codigo_igi_sage = Some("IGI_9_5"),
                                !.clasificacion_sage = Some("Servicios TI") ] }

to_row(fr) ==
  [ num_factura        |-> fr.num_factura,
    base               |-> fr.base_imponible,
    igi                |-> fr.igi,
    total              |-> fr.total,
    igi_codigo         |-> IF fr.codigo_igi_sage = None THEN "" ELSE Val(fr.codigo_igi_sage),
    clasificacion_sage |-> fr.clasificacion_sage ]

\* the exception leaves the loop altogether
AfterException_abort(i) == Len(files) + 1

\* except Exception: the handler prints, the for loop goes on to the next file
AfterException(i) == i + 1

ProcessOne ==
  /\ mainPc = "process_one" /\ idx <= Len(files)
  /\ \E rec \in ProcessedRecords : processed' = Some(rec)
  /\ mainPc' = "save_output_json"
  /\ UNCHANGED << files, idx, saved, registros, log, csv,
                  normVars, lineVars, rateVars, tableVars, moneyVars, totalsVars, textVars >>

ProcessOneRaises ==
  /\ mainPc = "process_one" /\ idx <= Len(files)
  /\ log' = Append(log, << "FAIL", files[idx] >>)
  /\ idx' = AfterException(idx)
  /\ UNCHANGED << files, mainPc, processed, saved, registros, csv,
                  normVars, lineVars, rateVars, tableVars, moneyVars, totalsVars, textVars >>

SaveOutputJson ==
  /\ mainPc = "save_output_json"
  /\ saved' = Append(saved, [ path |-> files[idx], payload |-> Val(processed) ])
  /\ mainPc' = "append"
  /\ UNCHANGED << files, idx, processed, registros, log, csv,
                  normVars, lineVars, rateVars, tableVars, moneyVars, totalsVars, textVars >>

SaveOutputJsonRaises ==
  /\ mainPc = "save_output_json"
  /\ log' = Append(log, << "FAIL", files[idx] >>)
  /\ idx' = AfterException(idx)
  /\ mainPc' = "process_one"
  /\ UNCHANGED << files, processed, saved, registros, csv,
                  normVars, lineVars, rateVars, tableVars, moneyVars, totalsVars, textVars >>

AppendRow ==
  /\ mainPc = "append"
  /\ registros' = Append(registros, to_row(Val(processed)))
  /\ log' = Append(log, << "OK", files[idx] >>)
  /\ idx' = idx + 1
  /\ mainPc' = "process_one"
  /\ UNCHANGED << files, processed, saved, csv,
                  normVars, lineVars, rateVars, tableVars, moneyVars, totalsVars, textVars >>

WriteCsv ==
  /\ mainPc = "process_one" /\ idx > Len(files)
  /\ csv' = IF registros # << >> THEN Some(registros) ELSE csv
  /\ mainPc' = "finished"
  /\ UNCHANGED << files, idx, processed, saved, registros, log,
                  normVars, lineVars, rateVars, tableVars, moneyVars, totalsVars, textVars >>

InitMain ==
  /\ files \in FileLists
  /\ idx = 1 /\ mainPc = "process_one" /\ processed = None
  /\ saved = << >> /\ registros = << >> /\ log = << >> /\ csv = None
  /\ result = [ documents |-> << >>, lines |-> << >>, tables |-> << >>,
                key_value_pairs |-> << >> ]
  /\ f = FacturaNormalizada
  /\ pc = "idle"
  /\ ran = << >>
  /\ linea = IdleLine /\ lineaPrev = IdleLine /\ lineCalls = 0
  /\ rateOut = None /\ rateArg = None /\ rateCalls = 0
  /\ tablesArg = << >> /\ tablesOut = << >> /\ tablesCalls = 0
  /\ moneyArg = << >> /\ moneyOut = << >> /\ moneyCalls = 0
  /\ totalsText = << >> /\ totalsFac = << >> /\ totalsOut = << >> /\ totalsCalls = 0
  /\ textArg = << >> /\ textOut = << >> /\ textCalls = 0

NextMain ==
  \/ ProcessOne
  \/ ProcessOneRaises
  \/ SaveOutputJson
  \/ SaveOutputJsonRaises
  \/ AppendRow
  \/ WriteCsv

SpecMain == InitMain /\ [][NextMain]_vars

(***************************************************************************)
(* normalize.py: _parse_money on its own.  Here a text is the sequence of  *)
(* its characters, and RE_NUM and float() are computed on the characters.  *)
(***************************************************************************)
MaxPieces == 4

Digits == { "0", "1", "2", "3", "4", "5", "6", "7", "8", "9" }

DigitVal(c) ==
  CASE c = "0" -> 0 [] c = "1" -> 1 [] c = "2" -> 2 [] c = "3" -> 3 [] c = "4" -> 4
    [] c = "5" -> 5 [] c = "6" -> 6 [] c = "7" -> 7 [] c = "8" -> 8 [] c = "9" -> 9

IsDigitAt(s, i) == i >= 1 /\ i <= Len(s) /\ s[i] \in Digits
IsCharAt(s, i, cs) == i >= 1 /\ i <= Len(s) /\ s[i] \in cs

\* str.replace(pat, ""): the occurrences of pat taken out, left to right
RECURSIVE RemoveAll(_, _)
RemoveAll(s, pat) ==
  IF Len(s) < Len(pat) THEN s
  ELSE IF SubSeq(s, 1, Len(pat)) = pat THEN RemoveAll(SubSeq(s, Len(pat) + 1, Len(s)), pat)
  ELSE << Head(s) >> \o RemoveAll(Tail(s), pat)

\* str.strip()
RECURSIVE Strip(_)
Strip(s) ==
  IF s = << >> THEN s
  ELSE IF Head(s) = " " THEN Strip(Tail(s))
  ELSE IF s[Len(s)] = " " THEN Strip(SubSeq(s, 1, Len(s) - 1))
  ELSE s

\* the number of digits that follow one another from position i on, at most n
RECURSIVE DigitRun(_, _, _)
DigitRun(s, i, n) ==
  IF n = 0 \/ ~IsDigitAt(s, i) THEN 0 ELSE 1 + DigitRun(s, i + 1, n - 1)

\* [-+]? taken when it can be: without it \d meets the sign and fails
AfterSign(s, i) == IF IsCharAt(s, i, { "-", "+" }) THEN i + 1 ELSE i

\* (?:[\,\.]\d{2}) at position e
DecimalsAt(s, e) ==
  IsCharAt(s, e, { ",", "." }) /\ IsDigitAt(s, e + 1) /\ IsDigitAt(s, e + 2)

\* (?:[\.\s]\d{3}) at position p
GroupAt(s, p) ==
  IsCharAt(s, p, { ".", " " }) /\ DigitRun(s, p + 1, 3) = 3

RECURSIVE GroupRun(_, _)
GroupRun(s, p) == IF GroupAt(s, p) THEN 1 + GroupRun(s, p + 4) ELSE 0

\* the greedy (...)* giving back one group at a time until the decimals match;
\* the position after the match, 0 when there is none
RECURSIVE TryGroups(_, _, _)
TryGroups(s, p, k) ==
  IF DecimalsAt(s, p + 4 * k) THEN p + 4 * k + 3
  ELSE IF k = 0 THEN 0
  ELSE TryGroups(s, p, k - 1)

\* the greedy \d{1,3} giving back one digit at a time
RECURSIVE TryDigits(_, _, _)
TryDigits(s, j, d) ==
  IF d = 0 THEN 0
  ELSE LET e == TryGroups(s, j + d, GroupRun(s, j + d))
       IN IF e # 0 THEN e ELSE TryDigits(s, j, d - 1)

\* first alternative of RE_NUM at position i
NumAlt1(s, i) == TryDigits(s, AfterSign(s, i), DigitRun(s, AfterSign(s, i), 3))

\* second alternative of RE_NUM at position i
NumAlt2(s, i) ==
  LET j == AfterSign(s, i)
      d == DigitRun(s, j, Len(s))
  IN IF d = 0 THEN 0
     ELSE IF DecimalsAt(s, j + d) THEN j + d + 3 ELSE j + d

RE_NUM_match(s, i) == IF NumAlt1(s, i) # 0 THEN NumAlt1(s, i) ELSE NumAlt2(s, i)

\* RE_NUM.findall(s), scanning from position i
RECURSIVE RE_NUM_findall(_, _)
RE_NUM_findall(s, i) ==
  IF i > Len(s) THEN << >>
  ELSE IF RE_NUM_match(s, i) = 0 THEN RE_NUM_findall(s, i + 1)
  ELSE << SubSeq(s, i, RE_NUM_match(s, i) - 1) >> \o RE_NUM_findall(s, RE_NUM_match(s, i))

\* the value of a run of digits
RECURSIVE DigitsVal(_)
DigitsVal(ds) ==
  IF ds = << >> THEN 0 ELSE 10 * DigitsVal(SubSeq(ds, 1, Len(ds) - 1)) + DigitVal(ds[Len(ds)])

\* a run of digits read as a decimal part, in thousandths
FractionVal(ds) ==
  CASE Len(ds) = 0 -> 0
    [] Len(ds) = 1 -> 100 * DigitsVal(ds)
    [] Len(ds) = 2 -> 10 * DigitsVal(ds)
    [] OTHER -> DigitsVal(SubSeq(ds, 1, 3))

DotsOf(t) == { k \in 1..Len(t) : t[k] = "." }

\* float(t) on the characters a number of RE_NUM can hold: a sign, digits and
\* at most one point; None stands for ValueError
float_chars(t) ==
  LET j == AfterSign(t, 1)
      body == SubSeq(t, j, Len(t))
      sgn == IF j = 2 /\ t[1] = "-" THEN -1 ELSE 1
  IN IF \/ \E k \in 1..Len(body) : body[k] \notin Digits \cup { "." }
        \/ Cardinality(DotsOf(body)) > 1
        \/ \A k \in 1..Len(body) : body[k] \notin Digits
     THEN None
     ELSE IF DotsOf(body) = {}
     THEN Some(sgn * Scale * DigitsVal(body))
     ELSE LET p == CHOOSE k \in DotsOf(body) : TRUE
          IN Some(sgn * (Scale * DigitsVal(SubSeq(body, 1, p - 1))
                           + FractionVal(SubSeq(body, p + 1, Len(body)))))

RECURSIVE CommasToDots(_)
CommasToDots(t) ==
  IF t = << >> THEN t
  ELSE << IF Head(t) = "," THEN "." ELSE Head(t) >> \o CommasToDots(Tail(t))

\* _to_float on the characters of a text
to_float_chars(t) ==
  IF float_chars(t) # None THEN float_chars(t)
  ELSE float_chars(RemoveAll(CommasToDots(t), << " " >>))

\* _parse_money on the characters of a text; None is the argument None
parse_money_chars(s) ==
  IF s = None \/ Val(s) = << >> THEN None
  ELSE LET nums == RE_NUM_findall(
                     Strip(RemoveAll(RemoveAll(Val(s), << "€" >>), << "E", "U", "R" >>)), 1)
       IN IF nums = << >> THEN None ELSE to_float_chars(nums[Len(nums)])

\* the pieces the texts are put together from
MoneyPieces ==
  { << "I", "V", "A", " ", "2", "1", "%", " ", "(" >>,
    << "-", "5", "0", "4", ",", "0", "0" >>,
    << "€", ")" >>,
    << "1" >>,
    << ".", "2", "3", "4" >>,
    << " ", "2", "3", "4" >>,
    << ",", "5", "6" >>,
    << "E", "U", "R" >> }

RECURSIVE Concat(_)
Concat(ps) == IF ps = << >> THEN << >> ELSE Head(ps) \o Concat(Tail(ps))

\* None, and the texts made of up to MaxPieces pieces, each piece used once
MoneyInputs ==
  { None } \cup
  { Some(Concat(ps)) :
      ps \in { q \in SeqsUpTo(MoneyPieces, MaxPieces) :
                 \A i, j \in 1..Len(q) : i # j => q[i] # q[j] } }

ParseMoneyCall ==
  /\ moneyCalls = 0
  /\ moneyOut' = parse_money_chars(moneyArg)
  /\ moneyCalls' = 1
  /\ UNCHANGED << moneyArg, normVars, lineVars, rateVars, tableVars, mainVars, totalsVars, textVars >>

InitMoney ==
  /\ moneyArg \in MoneyInputs
  /\ moneyOut = None
  /\ moneyCalls = 0
  /\ result = [ documents |-> << >>, lines |-> << >>, tables |-> << >>,
                key_value_pairs |-> << >> ]
  /\ f = FacturaNormalizada
  /\ pc = "idle"
  /\ ran = << >>
  /\ linea = IdleLine /\ lineaPrev = IdleLine /\ lineCalls = 0
  /\ rateOut = None /\ rateArg = None /\ rateCalls = 0
  /\ tablesArg = << >> /\ tablesOut = << >> /\ tablesCalls = 0
  /\ files = << >> /\ idx = 1 /\ mainPc = "idle" /\ processed = << >>
  /\ saved = << >> /\ registros = << >> /\ log = << >> /\ csv = << >>
  /\ totalsText = << >> /\ totalsFac = << >> /\ totalsOut = << >> /\ totalsCalls = 0
  /\ textArg = << >> /\ textOut = << >> /\ textCalls = 0

SpecMoney == InitMoney /\ [][ParseMoneyCall]_vars

(***************************************************************************)
(* normalize.py: _fill_totals_from_text on its own                         *)
(***************************************************************************)
MaxTotalsLines == 3

\* text lines with a keyword of one category, with and without an amount, and
\* a line with an amount and no keyword
TotalsLines ==
  { << "Subtotal", "100,00" >>, << "Subtotal", "20,00" >>, << "Subtotal" >>,
    << "IVA", "9,50" >>, << "IVA", "10,00" >>,
    << "Total", "109,50" >>, << "Total", "20,00" >>,
    << "Widget", "10,00" >> }

FillTotalsCall ==
  /\ totalsCalls = 0
  /\ totalsOut' = fill_totals_from_text(totalsText, totalsFac)
  /\ totalsCalls' = 1
  /\ UNCHANGED << totalsText, totalsFac, textVars, normVars, lineVars, rateVars,
                  tableVars, mainVars, moneyVars >>

InitTotals ==
  /\ totalsText \in SeqsUpTo(TotalsLines, MaxTotalsLines)
  /\ totalsFac \in { FacturaNormalizada,
                      [ FacturaNormalizada EXCEPT !.base_imponible = Some(25000) ] }
  /\ totalsOut = totalsFac
  /\ totalsCalls = 0
  /\ textArg = << >> /\ textOut = << >> /\ textCalls = 0
  /\ result = [ documents |-> << >>, lines |-> << >>, tables |-> << >>,
                key_value_pairs |-> << >> ]
  /\ f = FacturaNormalizada
  /\ pc = "idle"
  /\ ran = << >>
  /\ linea = IdleLine /\ lineaPrev = IdleLine /\ lineCalls = 0
  /\ rateOut = None /\ rateArg = None /\ rateCalls = 0
  /\ tablesArg = << >> /\ tablesOut = << >> /\ tablesCalls = 0
  /\ files = << >> /\ idx = 1 /\ mainPc = "idle" /\ processed = << >>
  /\ saved = << >> /\ registros = << >> /\ log = << >> /\ csv = << >>
  /\ moneyArg = << >> /\ moneyOut = << >> /\ moneyCalls = 0

SpecTotals == InitTotals /\ [][FillTotalsCall]_vars

(***************************************************************************)
(* normalize.py: _lines_from_text on its own                               *)
(***************************************************************************)
MaxTextLines == 4

\* a line that is neither header, row nor block end; the header; two data
\* rows; two lines that end the block
TextLines ==
  { << "ACME" >>, HeaderLine, RowLine, << "1", "Gadget", "8,00", "8,00" >>,
    SubtotalLine, TotalLine }

LinesFromTextCall ==
  /\ textCalls = 0
  /\ textOut' = lines_from_text(textArg)
  /\ textCalls' = 1
  /\ UNCHANGED << textArg, totalsVars, normVars, lineVars, rateVars,
                  tableVars, mainVars, moneyVars >>

InitText ==
  /\ textArg \in SeqsUpTo(TextLines, MaxTextLines)
  /\ textOut = << >>
  /\ textCalls = 0
  /\ totalsText = << >> /\ totalsFac = << >> /\ totalsOut = << >> /\ totalsCalls = 0
  /\ result = [ documents |-> << >>, lines |-> << >>, tables |-> << >>,
                key_value_pairs |-> << >> ]
  /\ f = FacturaNormalizada
  /\ pc = "idle"
  /\ ran = << >>
  /\ linea = IdleLine /\ lineaPrev = IdleLine /\ lineCalls = 0
  /\ rateOut = None /\ rateArg = None /\ rateCalls = 0
  /\ tablesArg = << >> /\ tablesOut = << >> /\ tablesCalls = 0
  /\ files = << >> /\ idx = 1 /\ mainPc = "idle" /\ processed = << >>
  /\ saved = << >> /\ registros = << >> /\ log = << >> /\ csv = << >>
  /\ moneyArg = << >> /\ moneyOut = << >> /\ moneyCalls = 0

SpecText == InitText /\ [][LinesFromTextCall]_vars

(***************************************************************************)
(* normalize_igi_rate on its own: applied to a rate, then to its result    *)
(***************************************************************************)
MaxSnaps == 2
MaxRate == 12000

\* the rates read, in thousandths; an exact half of a hundredth is left out,
\* the binary value of the float deciding how round() takes it
RateInputs ==
  { None } \cup { Some(r) : r \in { x \in (-(MaxRate \div 10))..MaxRate : x % 10 # 5 } }

SnapRate ==
  /\ rateCalls < MaxSnaps
  /\ LET arg == IF rateCalls = 0 THEN rateArg ELSE rateOut
     IN /\ rateArg' = arg
        /\ rateOut' = normalize_igi_rate(arg)
  /\ rateCalls' = rateCalls + 1
  /\ UNCHANGED << normVars, lineVars, tableVars, mainVars, moneyVars, totalsVars, textVars >>

InitRate ==
  /\ rateArg \in RateInputs
  /\ rateOut = None
  /\ rateCalls = 0
  /\ result = [ documents |-> << >>, lines |-> << >>, tables |-> << >>,
                key_value_pairs |-> << >> ]
  /\ f = FacturaNormalizada
  /\ pc = "idle"
  /\ ran = << >>
  /\ linea = IdleLine /\ lineaPrev = IdleLine /\ lineCalls = 0
  /\ tablesArg = << >> /\ tablesOut = << >> /\ tablesCalls = 0
  /\ files = << >> /\ idx = 1 /\ mainPc = "idle" /\ processed = << >>
  /\ saved = << >> /\ registros = << >> /\ log = << >> /\ csv = << >>
  /\ moneyArg = << >> /\ moneyOut = << >> /\ moneyCalls = 0
  /\ totalsText = << >> /\ totalsFac = << >> /\ totalsOut = << >> /\ totalsCalls = 0
  /\ textArg = << >> /\ textOut = << >> /\ textCalls = 0

SpecRate == InitRate /\ [][SnapRate]_vars

(***************************************************************************)
(* The claims                                                              *)
(***************************************************************************)
Structured == result.documents # << >>

TierNames == << "items", "tables", "text" >>

\* what each tier returns for the result, in the order of the tiers
TierYields ==
  << lines_from_items(result.documents[1]),
     lines_from_tables(result.tables),
     lines_from_text(text_from_result(result)) >>

\* C1: on the structured-fields path the tiers are called in the order Items,
\* tables, text; a tier is called only when every tier before it returned no
\* line; and the lines of the returned record are those of the one tier that
\* returned lines, or else nothing but the synthetic line.
C1_TierOrder ==
  Structured =>
    /\ Len(ran) <= 3
    /\ \A k \in 1..Len(ran) : ran[k].tier = TierNames[k]
    /\ \A k \in 2..Len(ran) : \A j \in 1..(k - 1) : ran[j].n = 0
    /\ pc = "done" =>
         /\ Len(ran) >= 1
         /\ Len(ran) < 3 => ran[Len(ran)].n > 0
         /\ IF ran[Len(ran)].n > 0
            THEN f.lineas = TierYields[Len(ran)]
            ELSE f.lineas = << >> \/ f.lineas = << SyntheticLinea(f) >>

\* C1: the text tier was called, after the Items and the tables gave nothing,
\* and returned lines
C1_Witness ==
  Structured /\ pc = "done" /\ Len(ran) = 3 /\ ran[3].n > 0 /\ f.lineas # << >>

\* the input of C2: SubTotal 100.00, InvoiceTotal 109.50, the given TotalTax,
\* no Items, no table, no text line
C2_Input(tax) ==
  /\ Structured
  /\ result.documents[1].SubTotal = Some("100.00")
  /\ result.documents[1].InvoiceTotal = Some("109.50")
  /\ result.documents[1].TotalTax = tax
  /\ result.documents[1].Items \in { None, Some(<< >>) }
  /\ result.tables = << >>
  /\ result.lines = << >>

C2_SyntheticOnly ==
  /\ Len(f.lineas) = 1
  /\ f.lineas[1].cantidad = Some(1000)
  /\ f.lineas[1].precio_unitario = Some(100000)
  /\ f.lineas[1].total_linea = Some(109500)

\* C2 as stated: with SubTotal 100.00 and InvoiceTotal 109.50 and no TotalTax
\* the record has the synthetic line only, quantity 1, unit price 100.00,
\* total 109.50 and a tax rate of about 9.5.
C2_Original ==
  (pc = "done" /\ C2_Input(None)) =>
    /\ C2_SyntheticOnly
    /\ f.lineas[1].tipo_igi # None
    /\ Abs(Val(f.lineas[1].tipo_igi) - 9500) <= 50

\* C2 as amended: with SubTotal 100.00 and InvoiceTotal 109.50 the record has
\* the synthetic line only, quantity 1, unit price 100.00, total 109.50; its
\* tax rate, tax amount and tax code are null when TotalTax is absent, and the
\* rate is 9.5 when TotalTax is 9.50.
C2_Amended ==
  /\ (pc = "done" /\ C2_Input(None)) =>
       /\ C2_SyntheticOnly
       /\ f.lineas[1].tipo_igi = None
       /\ f.lineas[1].importe_igi = None
       /\ f.lineas[1].codigo_igi_sage = None
  /\ (pc = "done" /\ C2_Input(Some("9.50"))) =>
       /\ C2_SyntheticOnly
       /\ f.lineas[1].tipo_igi = Some(9500)
       /\ f.lineas[1].importe_igi = Some(9500)

\* C2: the record of the input without TotalTax is returned, with its one line
C2_Witness ==
  pc = "done" /\ C2_Input(None) /\ Len(f.lineas) = 1 /\ f.total = Some(109500)

\* the snapped rate of every line, None for a line without a rate
SnappedRates(ls) == { normalize_igi_rate(ls[k].tipo_igi) : k \in 1..Len(ls) }

HasRates(ls, r1, r2) ==
  /\ \E k \in 1..Len(ls) : ls[k].tipo_igi = Some(r1)
  /\ \E k \in 1..Len(ls) : ls[k].tipo_igi = Some(r2)

\* C3 as stated: the header tax code of a returned record is non-null only if
\* all its lines share one snapped rate; lines at 9.5 and at 4.5 give a null
\* header code.
C3_Original ==
  pc = "done" =>
    /\ f.codigo_igi_sage # None => Cardinality(SnappedRates(f.lineas)) = 1
    /\ HasRates(f.lineas, 9500, 4500) => f.codigo_igi_sage = None

\* C3 as amended: the header tax code of a returned record is non-null only if
\* some line has a rate and all the lines that have a rate share one snapped
\* rate, the lines without a rate not counting; lines at 9.5 and at 4.5 give a
\* null header code.
C3_Amended ==
  pc = "done" =>
    /\ f.codigo_igi_sage # None =>
         /\ \E k \in 1..Len(f.lineas) : f.lineas[k].tipo_igi # None
         /\ \A j, k \in 1..Len(f.lineas) :
              (f.lineas[j].tipo_igi # None /\ f.lineas[k].tipo_igi # None) =>
                normalize_igi_rate(f.lineas[j].tipo_igi)
                  = normalize_igi_rate(f.lineas[k].tipo_igi)
    /\ HasRates(f.lineas, 9500, 4500) => f.codigo_igi_sage = None

\* C3: a record with a header tax code, one of whose lines has no rate
C3_Witness ==
  /\ pc = "done"
  /\ f.codigo_igi_sage = Some("IGI_9_5")
  /\ \E k \in 1..Len(f.lineas) : f.lineas[k].tipo_igi = None

\* the sum, over the lines with a rate and a total, of the net of the total at
\* the snapped rate, and of the tax of that net
RECURSIVE SumNet(_, _)
SumNet(ls, k) ==
  IF k = 0 THEN 0
  ELSE SumNet(ls, k - 1)
       + (IF ls[k].tipo_igi # None /\ ls[k].total_linea # None
          THEN RoundNet(Val(ls[k].total_linea), Val(normalize_igi_rate(ls[k].tipo_igi)))
          ELSE 0)

RECURSIVE SumTax(_, _)
SumTax(ls, k) ==
  IF k = 0 THEN 0
  ELSE SumTax(ls, k - 1)
       + (IF ls[k].tipo_igi # None /\ ls[k].total_linea # None
          THEN RoundTax(RoundNet(Val(ls[k].total_linea),
                                 Val(normalize_igi_rate(ls[k].tipo_igi))),
                        Val(normalize_igi_rate(ls[k].tipo_igi)))
          ELSE 0)

C4_Example(ls) ==
  /\ Len(ls) = 2
  /\ ls[1].total_linea = Some(21900) /\ ls[1].tipo_igi = Some(9500)
  /\ ls[2].total_linea = Some(43800) /\ ls[2].tipo_igi = Some(9500)

C5_CalcLine ==
  (lineCalls = 1 /\ lineaPrev.cantidad # None /\ lineaPrev.precio_unitario # None
     /\ lineaPrev.tipo_igi # None /\ lineaPrev.total_linea = None) =>
    LET base    == RoundMul(Val(lineaPrev.cantidad), Val(lineaPrev.precio_unitario))
        snapped == MinByDistance(Round2(Val(lineaPrev.tipo_igi)))
        tax     == RoundDiv(base * snapped, 100 * Scale * 10) * 10
    IN /\ linea.importe_igi = Some(tax)
       /\ linea.total_linea = Some(base + tax)
       /\ linea.codigo_igi_sage = igi_code_from_rate(Some(snapped))
       /\ (lineaPrev.cantidad = Some(2000) /\ lineaPrev.precio_unitario = Some(10000)
             /\ lineaPrev.tipo_igi = Some(9500)) =>
            /\ linea.importe_igi = Some(1900)
            /\ linea.total_linea = Some(21900)
            /\ linea.codigo_igi_sage = Some("IGI_9_5")

\* C5: quantity 2 at 10.00 and 9.5, after the call
C5_Witness ==
  /\ lineCalls = 1
  /\ lineaPrev.cantidad = Some(2000) /\ lineaPrev.precio_unitario = Some(10000)
  /\ lineaPrev.tipo_igi = Some(9500) /\ lineaPrev.total_linea = None
  /\ linea.total_linea = Some(21900)

\* C6: a second call of _calc_missing_line_taxes on the line a first call left
\* changes no field of it.
C6_Idempotent == lineCalls >= 2 => linea = lineaPrev

\* C6: a line the first call completed (its total was unknown), called again
C6_Witness ==
  /\ lineCalls = 2
  /\ linea.cantidad = Some(2000) /\ linea.precio_unitario = Some(10000)
  /\ linea.tipo_igi = Some(9500) /\ linea.total_linea = Some(21900)
  /\ linea.importe_igi = Some(1900)

AllCoreNull(l) ==
  /\ l.descripcion = None /\ l.cantidad = None /\ l.precio_unitario = None
  /\ l.tipo_igi = None /\ l.total_linea = None

\* C7: no line of a returned record has description, quantity, unit price, tax
\* rate and line total all null.
C7_Original ==
  pc = "done" => \A k \in 1..Len(f.lineas) : ~AllCoreNull(f.lineas[k])

\* what the external result contained: the field map, the items, the
\* key-value pairs and the table grids
RawFields ==
  IF ~Structured THEN { }
  ELSE { << n, result.documents[1][n] >> :
           n \in { m \in { "InvoiceId", "SubTotal", "TotalTax", "InvoiceTotal" } :
                     result.documents[1][m] # None } }
RawItems ==
  IF ~Structured \/ result.documents[1].Items = None THEN << >>
  ELSE Val(result.documents[1].Items)

\* C8: a returned record carries the raw field map, the raw items, the raw
\* key-value pairs and the raw table grids of the external result.
C8_Original ==
  pc = "done" =>
    /\ f.azure_fields = RawFields
    /\ f.azure_items = RawItems
    /\ f.azure_kv_pairs = result.key_value_pairs
    /\ f.azure_tables = result.tables

\* the total the source states: the InvoiceTotal field, or a total line of the text
SourceTotal ==
  IF Structured /\ to_float(result.documents[1].InvoiceTotal) # None
  THEN to_float(result.documents[1].InvoiceTotal)
  ELSE Guesses(NoGuess, text_from_result(result), FacturaNormalizada).total_guess

\* C9 as stated: in a returned record with header base and tax both known the
\* total is known and equals base + tax.
C9_Original ==
  (pc = "done" /\ f.base_imponible # None /\ f.igi # None) =>
    /\ f.total # None
    /\ f.total = Some(Val(f.base_imponible) + Val(f.igi))

\* C9 as amended: in a returned record with header base and tax both known the
\* total is known, and it equals base + tax whenever the source stated no
\* total (no InvoiceTotal field and no total line in the text).
C9_Amended ==
  (pc = "done" /\ f.base_imponible # None /\ f.igi # None) =>
    /\ f.total # None
    /\ SourceTotal = None => f.total = Some(Val(f.base_imponible) + Val(f.igi))

\* C9: base and tax derived from the lines, and the total computed from them
C9_Witness ==
  /\ pc = "done" /\ Structured
  /\ result.documents[1].SubTotal = None /\ SourceTotal = None
  /\ f.base_imponible = Some(20000) /\ f.igi = Some(1900) /\ f.total = Some(21900)

\* C10: normalize_igi_rate applied to its own result returns that result, for
\* every rate and for None.
C10_Idempotent == rateCalls >= 2 => rateOut = rateArg

\* C10: a rate snapped to 4.5 by the first call, and 4.5 given to the second
C10_Witness == rateCalls = 2 /\ rateArg = Some(4500) /\ rateOut = Some(4500)

\* C11: normalize_igi_rate returns None for None, and for a rate the member of
\* IGI_RATES nearest to the rate rounded to 2 decimals, the earlier member of
\* the list when two are equally near: 1.75 gives 1.0, 3.5 gives 2.5 and 7.0
\* gives 4.5.
C11_Nearest ==
  rateCalls = 1 =>
    /\ rateArg = None => rateOut = None
    /\ rateArg # None =>
         \E i \in 1..Len(IGI_RATES) :
           /\ rateOut = Some(IGI_RATES[i])
           /\ \A j \in 1..Len(IGI_RATES) :
                Abs(IGI_RATES[i] - Round2(Val(rateArg)))
                  <= Abs(IGI_RATES[j] - Round2(Val(rateArg)))
           /\ \A j \in 1..(i - 1) :
                Abs(IGI_RATES[j] - Round2(Val(rateArg)))
                  > Abs(IGI_RATES[i] - Round2(Val(rateArg)))
    /\ rateArg = Some(1750) => rateOut = Some(1000)
    /\ rateArg = Some(3500) => rateOut = Some(2500)
    /\ rateArg = Some(7000) => rateOut = Some(4500)

\* C11: the rate 1.75, as near to 1.0 as to 2.5, snapped to 1.0
C11_Witness == rateCalls = 1 /\ rateArg = Some(1750) /\ rateOut = Some(1000)

\* the line total the source supplied for each row of the tables that gives a
\* line, None where the amount cell is missing or does not parse
RECURSIVE AmountsOfRows(_, _)
AmountsOfRows(header, rows) ==
  IF rows = << >> THEN << >>
  ELSE (IF LineaOfRow(header, Head(rows)) = None THEN << >>
        ELSE << to_float(CellAt(Head(rows), find(header, ALIAS_AMT), None)) >>)
       \o AmountsOfRows(header, Tail(rows))

RECURSIVE AmountsOfTables(_)
AmountsOfTables(tables) ==
  IF tables = << >> THEN << >>
  ELSE (IF Head(tables) = << >> THEN << >>
        ELSE AmountsOfRows([k \in 1..Len(Head(tables)[1]) |-> Lower(Head(tables)[1][k])],
                           Tail(Head(tables))))
       \o AmountsOfTables(Tail(tables))

\* the line total the source supplied for each line of the record: the Amount
\* of the item, the amount cell of the table row, the amount of the text row
\* (which the row pattern requires), the header total for the synthetic line
SuppliedTotals ==
  IF ran # << >> /\ ran[Len(ran)].n > 0
  THEN CASE ran[Len(ran)].tier = "items" ->
              [k \in 1..Len(f.lineas) |-> to_float(Val(result.documents[1].Items)[k].Amount)]
         [] ran[Len(ran)].tier = "tables" -> AmountsOfTables(result.tables)
         [] OTHER -> [k \in 1..Len(f.lineas) |-> f.lineas[k].total_linea]
  ELSE [k \in 1..Len(f.lineas) |-> f.total]

\* the base of a reconciled line: quantity * unit price, or else the line total
\* inverted at the snapped rate
C12_Base(l) ==
  IF l.cantidad # None /\ l.precio_unitario # None
  THEN Some(RoundMul(Val(l.cantidad), Val(l.precio_unitario)))
  ELSE IF l.total_linea # None /\ l.tipo_igi # None
  THEN Some(RoundNet(Val(l.total_linea), MinByDistance(Round2(Val(l.tipo_igi)))))
  ELSE None

C12_Tax(l) == RoundTax(Val(C12_Base(l)), MinByDistance(Round2(Val(l.tipo_igi))))

\* C12 as stated: every line of a returned record with a known rate and a
\* known base has tax_amount = round(base * snapped/100, 2) and
\* line_total = base + tax_amount, also when quantity, unit price, rate and
\* line total were all supplied.
C12_Original ==
  pc = "done" =>
    \A k \in 1..Len(f.lineas) :
      (f.lineas[k].tipo_igi # None /\ C12_Base(f.lineas[k]) # None) =>
        /\ f.lineas[k].importe_igi = Some(C12_Tax(f.lineas[k]))
        /\ f.lineas[k].total_linea
             = Some(Val(C12_Base(f.lineas[k])) + C12_Tax(f.lineas[k]))

\* C12 as amended: every line of a returned record with a known rate and a
\* known base has tax_amount = round(base * snapped/100, 2); its line total is
\* base + tax_amount when the source supplied no line total, and is the
\* supplied line total, unchanged, when the source supplied one (for the
\* synthetic line, the header total).
C12_Amended ==
  pc = "done" =>
    \A k \in 1..Len(f.lineas) :
      (f.lineas[k].tipo_igi # None /\ C12_Base(f.lineas[k]) # None) =>
        /\ f.lineas[k].importe_igi = Some(C12_Tax(f.lineas[k]))
        /\ f.lineas[k].total_linea
             = IF SuppliedTotals[k] = None
               THEN Some(Val(C12_Base(f.lineas[k])) + C12_Tax(f.lineas[k]))
               ELSE SuppliedTotals[k]

\* C12: a record with a line whose total was derived (2 x 10.00 at 9.5 gives
\* 21.90)
C12_Witness ==
  /\ pc = "done"
  /\ \E k \in 1..Len(f.lineas) :
       /\ SuppliedTotals[k] = None
       /\ f.lineas[k].cantidad = Some(2000) /\ f.lineas[k].precio_unitario = Some(10000)
       /\ f.lineas[k].tipo_igi = Some(9500)
       /\ f.lineas[k].importe_igi = Some(1900) /\ f.lineas[k].total_linea = Some(21900)

\* every alias of every column
AllAliases ==
  { ALIAS_DESC[k] : k \in 1..Len(ALIAS_DESC) } \cup { ALIAS_QTY[k] : k \in 1..Len(ALIAS_QTY) }
    \cup { ALIAS_UNIT[k] : k \in 1..Len(ALIAS_UNIT) } \cup { ALIAS_TAX[k] : k \in 1..Len(ALIAS_TAX) }
    \cup { ALIAS_AMT[k] : k \in 1..Len(ALIAS_AMT) }

NoAlias(grid) == \A k \in 1..Len(grid[1]) : Lower(grid[1][k]) \notin AllAliases

\* C13: _lines_from_tables given a table whose header row holds no alias of any
\* column returns, and every line it returns from that table has description,
\* quantity, unit price, tax rate and line total null.
C13_NoAliasTable ==
  (tablesCalls = 1 /\ \A t \in 1..Len(tablesArg) : NoAlias(tablesArg[t])) =>
    \A k \in 1..Len(tablesOut) : AllCoreNull(tablesOut[k])

\* C13: a table without any alias in its header and with a data row full of
\* values has been read
C13_Witness ==
  /\ tablesCalls = 1
  /\ tablesArg = << << << "Ref", "Obs", "Nota" >>, << "2", "8,00", "20,00" >> >> >>
  /\ tablesOut = << >>

\* the text of the cell of row r in the column of the first alias of alts that
\* the header row of the grid holds, None when no column is mapped
MappedCell(grid, r, alts) ==
  CellAt(r, find([k \in 1..Len(grid[1]) |-> Lower(grid[1][k])], alts), None)

\* C20: in the lines _lines_from_tables returns, a row whose quantity cell is a
\* composite 'qty x price' has the value of its unit price column as unit
\* price when that value parses, and the price of the composite only when the
\* column is absent or its value does not parse.
C20_Original ==
  (tablesCalls = 1 /\ Len(tablesArg) = 1 /\ Len(tablesOut) = Len(tablesArg[1]) - 1) =>
    \A k \in 1..Len(tablesOut) :
      LET r        == tablesArg[1][k + 1]
          qty_txt  == MappedCell(tablesArg[1], r, ALIAS_QTY)
          explicit == to_float(MappedCell(tablesArg[1], r, ALIAS_UNIT))
      IN (qty_txt # None /\ Val(qty_txt) \in DOMAIN QtyUnitGroups) =>
           tablesOut[k].precio_unitario
             = IF explicit # None THEN explicit
               ELSE to_float(Some(QtyUnitGroups[Val(qty_txt)][2]))

\* the result holds a document whose field map is not empty
FieldsNonEmpty ==
  /\ result.documents # << >>
  /\ \E n \in DOMAIN result.documents[1] : result.documents[1][n] # None

StructuredPcs == { "items", "tables", "text", "totals", "synthetic", "bottom_up", "tax_code" }
OcrPcs == { "ocr_lines", "ocr_synthetic" }

\* C14: norm_from_azure is on the structured-fields path exactly when the
\* result holds a non-empty structured field set; a document whose field map is
\* empty is handled on the path without structured fields.
C14_Original ==
  /\ pc \in StructuredPcs => FieldsNonEmpty
  /\ pc \in OcrPcs => ~FieldsNonEmpty

\* the rates, snapped, of the lines that have a rate
LineRates(ls) ==
  { MinByDistance(Round2(Val(ls[k].tipo_igi))) :
      k \in { j \in 1..Len(ls) : ls[j].tipo_igi # None } }

\* C15: on the path without structured fields, when the text gave no header
\* base and the lines carry rate and total, the returned header base, tax and
\* total are derived from the lines, and the header tax code is that of the one
\* snapped rate the lines share.
C15_Original ==
  (pc = "done" /\ ~Structured) =>
    /\ (Guesses(NoGuess, text_from_result(result), FacturaNormalizada).base_guess = None
          /\ SumNet(f.lineas, Len(f.lineas)) > 0) =>
         /\ f.base_imponible = Some(SumNet(f.lineas, Len(f.lineas)))
         /\ f.igi = Some(SumTax(f.lineas, Len(f.lineas)))
         /\ f.total # None
    /\ Cardinality(LineRates(f.lineas)) = 1 =>
         \E r \in LineRates(f.lineas) : f.codigo_igi_sage = igi_code_from_rate(Some(r))

\* the files of the lines printed with the given tag, in the order printed
RECURSIVE Tagged(_, _)
Tagged(lg, tag) ==
  IF lg = << >> THEN << >>
  ELSE (IF Head(lg)[1] = tag THEN << Head(lg)[2] >> ELSE << >>) \o Tagged(Tail(lg), tag)

\* C16: in main() a failure on one file never ends the batch: when the run is
\* over every file of the input has been tried, in input order; the summary
\* rows are, in input order, one row for each file that was processed and
\* saved, and none for a file that failed.
C16_Batch ==
  /\ \A k \in 1..Len(log) : k <= Len(files) /\ log[k][2] = files[k]
  /\ mainPc = "finished" => Len(log) = Len(files)
  /\ mainPc \in { "process_one", "finished" } =>
       /\ [k \in 1..Len(saved) |-> saved[k].path] = Tagged(log, "OK")
       /\ registros = [k \in 1..Len(saved) |-> to_row(saved[k].payload)]
  /\ csv # None => (mainPc = "finished" /\ Val(csv) = registros)

\* a run over three files whose second file failed and whose third gave a row
C16_Witness ==
  /\ mainPc = "finished" /\ Len(files) = 3
  /\ Tagged(log, "FAIL") = << files[2] >>
  /\ Len(registros) = 2
  /\ csv = Some(registros)

\* the numbers RE_NUM finds in the text given to _parse_money
MoneyTokens ==
  IF moneyArg = None THEN << >>
  ELSE RE_NUM_findall(
         Strip(RemoveAll(RemoveAll(Val(moneyArg), << "€" >>), << "E", "U", "R" >>)), 1)

RECURSIVE DigitsIn(_)
DigitsIn(t) ==
  IF t = << >> THEN << >>
  ELSE (IF Head(t) \in Digits THEN << Head(t) >> ELSE << >>) \o DigitsIn(Tail(t))

\* the amount a token stands for: a comma or dot before its last two digits
\* marks the decimals, every other separator groups thousands
MoneyValue(t) ==
  LET ds == DigitsIn(t)
      sgn == IF t[1] = "-" THEN -1 ELSE 1
  IN IF Len(t) >= 3 /\ t[Len(t) - 2] \in { ",", "." }
     THEN sgn * (Scale * DigitsVal(SubSeq(ds, 1, Len(ds) - 2))
                   + 10 * DigitsVal(SubSeq(ds, Len(ds) - 1, Len(ds))))
     ELSE sgn * Scale * DigitsVal(ds)

\* C19: _parse_money returns the value of the last numeric token of the text,
\* decimals written with comma or dot and thousands separators accepted, and
\* None when the text holds no number; "IVA 21% (-504,00€)" gives -504.00 and
\* "1.234,56" gives 1234.56.
C19_Original ==
  moneyCalls = 1 =>
    /\ MoneyTokens = << >> => moneyOut = None
    /\ MoneyTokens # << >> => moneyOut = Some(MoneyValue(MoneyTokens[Len(MoneyTokens)]))
    /\ moneyArg = Some(<< "I", "V", "A", " ", "2", "1", "%", " ", "(",
                          "-", "5", "0", "4", ",", "0", "0", "€", ")" >>)
         => moneyOut = Some(-504000)
    /\ moneyArg = Some(<< "1", ".", "2", "3", "4", ",", "5", "6" >>)
         => moneyOut = Some(1234560)

OptionalNumber(x) == x = None \/ (Len(x) = 1 /\ x[1] \in Int)
OptionalText(x) == x = None \/ (Len(x) = 1 /\ x[1] \in STRING)

LineaReturned(l) ==
  /\ OptionalText(l.descripcion) /\ OptionalText(l.codigo_igi_sage)
  /\ OptionalNumber(l.cantidad) /\ OptionalNumber(l.precio_unitario)
  /\ OptionalNumber(l.tipo_igi) /\ OptionalNumber(l.importe_igi)
  /\ OptionalNumber(l.total_linea)

RecordReturned(fac) ==
  /\ OptionalText(fac.num_factura) /\ OptionalText(fac.codigo_igi_sage)
  /\ OptionalNumber(fac.base_imponible) /\ OptionalNumber(fac.igi)
  /\ OptionalNumber(fac.total)
  /\ fac.clasificacion_sage # None
  /\ \A k \in 1..Len(fac.lineas) : LineaReturned(fac.lineas[k])

\* the result has a document with Items, and item k has the given Quantity
ItemQuantity(k, q) ==
  /\ Structured
  /\ result.documents[1].Items # None
  /\ k <= Len(Val(result.documents[1].Items))
  /\ Val(result.documents[1].Items)[k].Quantity = q

\* C18: norm_from_azure is total: whatever parts of the result are absent or
\* empty, it is, until it returns, at a block of its body that can be run, and
\* what it returns is a record whose fields are values or None; a Quantity that
\* does not parse gives a line without quantity, and a header base of zero
\* gives a synthetic line without rate and without tax.
C18_Total ==
  /\ pc # "done" => pc \in { "start" } \cup StructuredPcs \cup OcrPcs
  /\ pc = "done" =>
       /\ RecordReturned(f)
       /\ \A k \in 1..Len(f.lineas) :
            (ItemQuantity(k, Some("abc")) /\ ran = << [ tier |-> "items", n |-> Len(f.lineas) ] >>)
              => f.lineas[k].cantidad = None
       /\ (f.base_imponible = Some(0) /\ f.lineas # << >>
             /\ \A k \in 1..Len(ran) : ran[k].n = 0)
            => /\ Len(f.lineas) = 1
               /\ f.lineas[1].tipo_igi = None
               /\ f.lineas[1].importe_igi = None
               /\ f.lineas[1].total_linea = f.total

\* C18: a result with nothing but a document whose SubTotal is 0 and whose
\* InvoiceTotal and TotalTax are given: the record has the synthetic line
C18_Witness ==
  /\ pc = "done" /\ Structured
  /\ result.documents[1].SubTotal = Some("0")
  /\ result.documents[1].TotalTax # None
  /\ result.documents[1].Items = None
  /\ result.tables = << >> /\ result.lines = << >> /\ result.key_value_pairs = << >>
  /\ Len(f.lineas) = 1 /\ f.lineas[1].tipo_igi = None

IsBaseLine(ln)  == RE_SUBTOTAL(ln) \/ RE_BASE_IMP(ln)
IsTaxLine(ln)   == RE_TOTAL_IVA(ln) \/ RE_IVA_LINE(ln)
IsTotalLine(ln) == RE_TOTAL_FACT(ln) \/ RE_TOTAL(ln)

\* the first line of the text, in text order, that matches the category and
\* holds an amount; 0 when there is none
FirstWithAmount(text, IsOfCategory(_)) ==
  LET hits == { k \in 1..Len(text) : IsOfCategory(text[k]) /\ parse_money(text[k]) # None }
  IN IF hits = {} THEN 0 ELSE CHOOSE k \in hits : \A j \in hits : k <= j

\* C21: in _fill_totals_from_text each of base, tax and total, when it was
\* missing, takes the amount of the first text line that matches the keyword
\* of its category and holds an amount; a later matching line never replaces it.
C21_Original ==
  totalsCalls = 1 =>
    /\ (totalsFac.base_imponible = None /\ FirstWithAmount(totalsText, IsBaseLine) # 0)
         => totalsOut.base_imponible
              = parse_money(totalsText[FirstWithAmount(totalsText, IsBaseLine)])
    /\ (totalsFac.igi = None /\ FirstWithAmount(totalsText, IsTaxLine) # 0)
         => totalsOut.igi = parse_money(totalsText[FirstWithAmount(totalsText, IsTaxLine)])
    /\ (totalsFac.total = None /\ FirstWithAmount(totalsText, IsTotalLine) # 0)
         => totalsOut.total
              = parse_money(totalsText[FirstWithAmount(totalsText, IsTotalLine)])

\* the value the named header field of the document parses to
HeaderField(name) == to_float(result.documents[1][name])

\* C22: a header figure that was read from the structured fields is never
\* changed by a later fallback: when SubTotal, TotalTax or InvoiceTotal parsed
\* to a value, the returned base, tax or total is that value.
C22_Original ==
  (pc = "done" /\ Structured) =>
    /\ HeaderField("SubTotal") # None => f.base_imponible = HeaderField("SubTotal")
    /\ HeaderField("TotalTax") # None => f.igi = HeaderField("TotalTax")
    /\ HeaderField("InvoiceTotal") # None => f.total = HeaderField("InvoiceTotal")

\* C23: _calc_missing_line_taxes changes only the tax, the total and the tax
\* code of a line: description, quantity, unit price, rate and account are as
\* before the call, and a total known before the call keeps its value.
C23_Frame ==
  lineCalls >= 1 =>
    /\ linea.descripcion = lineaPrev.descripcion
    /\ linea.cantidad = lineaPrev.cantidad
    /\ linea.precio_unitario = lineaPrev.precio_unitario
    /\ linea.tipo_igi = lineaPrev.tipo_igi
    /\ linea.cuenta_sage = lineaPrev.cuenta_sage
    /\ lineaPrev.total_linea # None => linea.total_linea = lineaPrev.total_linea

\* C23: 2 at 10.00 with the rate 1.75 and the total 21.90: the call sets the
\* tax of the snapped rate and leaves rate and total as they were
C23_Witness ==
  /\ lineCalls = 1
  /\ lineaPrev.cantidad = Some(2000) /\ lineaPrev.precio_unitario = Some(10000)
  /\ lineaPrev.tipo_igi = Some(1750) /\ lineaPrev.total_linea = Some(21900)
  /\ lineaPrev.importe_igi = None
  /\ linea.importe_igi = Some(200)
  /\ linea.tipo_igi = Some(1750) /\ linea.total_linea = Some(21900)

\* the text lines that hold all three header keyword groups by themselves
HeaderLinesOf(text) == { k \in 1..Len(text) : IsHeaderWindow(<< text[k] >>) }

FirstHeaderLine(text) == CHOOSE h \in HeaderLinesOf(text) : \A g \in HeaderLinesOf(text) : h <= g

\* the data rows between line h and the first block end after it
RowsAfter(text, h) == SubSeq(text, h + 1, end_idx(text, h) - 1)

\* C24: in _lines_from_text no data row between the header and the block end
\* is lost: when a text line h holds all three header keyword groups, every
\* line after h and before the first block end that matches the row pattern
\* gives a line item, wherever h stands in the text.
C24_Original ==
  (textCalls = 1 /\ HeaderLinesOf(textArg) # {}) =>
    textOut = LinesOfBody(RowsAfter(textArg, FirstHeaderLine(textArg)))

====
